---- MODULE Spec2Model ----
(***************************************************************************)
(* Model of the Hatch registry: RegistryCore (registry_core.py) and        *)
(* RegistryDiff (registry_diff.py).  Python dicts are functions with a     *)
(* string domain (an absent key is a string outside DOMAIN), lists are     *)
(* sequences, None and the empty string are both the falsy "".             *)
(***************************************************************************)
EXTENDS Integers, Sequences, FiniteSets, TLC

VARIABLES registry_data, clock, last, written, threads, registry_file

vars == <<registry_data, clock, last, written, threads, registry_file>>

(***************************************************************************)
(* Bounds and input sets                                                   *)
(***************************************************************************)
\* number of distinct version identifiers a caller may supply
MaxVersions == 3
\* number of timestamps (successful mutations) a run may consume
MaxClock == 5

VersionNames == <<"1.0.0", "1.1.0", "1.2.0", "1.3.0", "1.4.0", "1.5.0">>
VersionIds == {VersionNames[i] : i \in 1..MaxVersions}

\* length of the dependency lists handed to the diff functions
MaxItems == 2

RepoNames == {"test-repo"}
PkgNames == {"base_pkg_1"}

EmptyDict == [k \in {} |-> k]

HDep(n, c) == [name |-> n, version_constraint |-> c]
PDep(n, c, m) == [name |-> n, version_constraint |-> c, package_manager |-> m]

Snap(h, p, c) == [hatch_dependencies |-> h, python_dependencies |-> p, compatibility |-> c]

\* metadata snapshots offered to the version writers
Snapshots ==
    { Snap(<<HDep("a", ">=1.0")>>, <<>>, EmptyDict),
      Snap(<<HDep("a", ">=1.1")>>, <<>>, EmptyDict),
      Snap(<<HDep("a", ">=1.1"), HDep("b", ">=1.0")>>, <<>>, EmptyDict),
      Snap(<<>>, <<PDep("requests", ">=2.25.0", "pip")>>, [python |-> ">=3.8"]),
      Snap(<<>>, <<PDep("requests", ">=2.25.0", "conda")>>,
           [hatchling |-> ">=0.1", python |-> ""]) }

\* the smaller set used where the chain structure, not the content, matters
StoreSnapshots ==
    { Snap(<<>>, <<>>, EmptyDict),
      Snap(<<HDep("a", ">=1.0")>>, <<>>, [python |-> ">=3.8"]) }

\* the one snapshot used where only the fact of a write matters
PersistSnapshots ==
    { Snap(<<HDep("a", ">=1.0")>>, <<>>, [python |-> ">=3.8"]) }

\* every list of at most n elements of S
SeqsUpTo(S, n) == UNION {[1..k -> S] : k \in 0..n}

\* the dependency lists offered to the diff functions, repeated names included
HatchItems == {HDep(n, c) : n \in {"a", "b", "c"}, c \in {">=1.0", ">=1.1"}}
PythonItems ==
    {PDep("requests", ">=2.25.0", "pip"), PDep("requests", ">=2.26.0", "pip"),
     PDep("requests", ">=2.25.0", "conda"), PDep("numpy", ">=1.0", "pip")}

\* the maps of key k alone: absent, or one of the values V
Opt(k, V) == {EmptyDict} \cup {k :> v : v \in V}

\* the compatibility maps offered to the compatibility diff; os is a key the
\* diff does not know
CompatMaps ==
    {h @@ p @@ o : h \in Opt("hatchling", {"", ">=0.1"}),
                   p \in Opt("python", {"", ">=3.8", ">=3.9"}),
                   o \in Opt("os", {"linux"})}

Metadata(pn, v, s) ==
    [name |-> pn, version |-> v,
     hatch_dependencies |-> s.hatch_dependencies,
     python_dependencies |-> s.python_dependencies,
     compatibility |-> s.compatibility]

(***************************************************************************)
(* Python primitives                                                       *)
(***************************************************************************)
\* dict.get(k, default)
Get(d, k, default) == IF k \in DOMAIN d THEN d[k] ELSE default

None == [None |-> TRUE]

Range(s) == {s[i] : i \in DOMAIN s}

Names(items) == {items[i].name : i \in DOMAIN items}

\* every list that enumerates the finite set S once (the iteration order of a
\* Python set of strings is not fixed)
RECURSIVE Orderings(_)
Orderings(S) ==
    IF S = {} THEN {<<>>}
    ELSE UNION {{<<x>> \o t : t \in Orderings(S \ {x})} : x \in S}

\* [d for d in items if d.get("name") != dep_name]
RECURSIVE WithoutName(_, _)
WithoutName(items, dep_name) ==
    IF items = <<>> THEN <<>>
    ELSE IF Head(items).name = dep_name THEN WithoutName(Tail(items), dep_name)
         ELSE <<Head(items)>> \o WithoutName(Tail(items), dep_name)

\* the modify loop as it would be if an entry that matches no name were inserted
ReplaceFirst_AppendIfMissing(items, mod_dep) ==
    LET hits == {i \in DOMAIN items : items[i].name = mod_dep.name}
    IN IF hits = {} THEN Append(items, mod_dep)
       ELSE LET i == CHOOSE j \in hits : \A k \in hits : j <= k
            IN [items EXCEPT ![i] = mod_dep]

\* for i, dep in enumerate(items): if dep.name == mod_dep.name: items[i] = mod_dep; break
ReplaceFirst(items, mod_dep) ==
    LET hits == {i \in DOMAIN items : items[i].name = mod_dep.name}
    IN IF hits = {} THEN items
       ELSE LET i == CHOOSE j \in hits : \A k \in hits : j <= k
            IN [items EXCEPT ![i] = mod_dep]

(***************************************************************************)
(* RegistryDiff                                                            *)
(***************************************************************************)
\* {item[key_field]: item for item in items}: the last item of a name wins
DictOf(items) ==
    [n \in Names(items) |->
        items[CHOOSE i \in DOMAIN items :
                 /\ items[i].name = n
                 /\ \A j \in DOMAIN items : items[j].name = n => j <= i]]

\* ComputeGenericDiff as it would be with the field comparison run over every
\* key of new_dict, a key old_dict lacks comparing as changed
ComputeGenericDiff_ModifiedOverNew(old_items, new_items, diff_fields) ==
    LET old_dict == DictOf(old_items)
        new_dict == DictOf(new_items)
        added_keys == DOMAIN new_dict \ DOMAIN old_dict
        removed_keys == DOMAIN old_dict \ DOMAIN new_dict
    IN [added |-> {new_dict[k] : k \in added_keys},
        removed |-> removed_keys,
        modified |-> {new_dict[k] : k \in
                        {c \in DOMAIN new_dict : \E f \in diff_fields :
                            Get(Get(old_dict, c, EmptyDict), f, "") # Get(new_dict[c], f, "")}}]

\* ComputeGenericDiff as it would be with added_keys = set(new_dict.keys())
ComputeGenericDiff_AddedAllNew(old_items, new_items, diff_fields) ==
    LET old_dict == DictOf(old_items)
        new_dict == DictOf(new_items)
        added_keys == DOMAIN new_dict
        removed_keys == DOMAIN old_dict \ DOMAIN new_dict
        common == DOMAIN old_dict \cap DOMAIN new_dict
    IN [added |-> {new_dict[k] : k \in added_keys},
        removed |-> removed_keys,
        modified |-> {new_dict[k] : k \in
                        {c \in common : \E f \in diff_fields :
                            Get(old_dict[c], f, "") # Get(new_dict[c], f, "")}}]

\* ComputeGenericDiff as it would be with removed_keys = set(old_dict.keys())
ComputeGenericDiff_RemovedAllOld(old_items, new_items, diff_fields) ==
    LET old_dict == DictOf(old_items)
        new_dict == DictOf(new_items)
        added_keys == DOMAIN new_dict \ DOMAIN old_dict
        removed_keys == DOMAIN old_dict
        common == DOMAIN old_dict \cap DOMAIN new_dict
    IN [added |-> {new_dict[k] : k \in added_keys},
        removed |-> removed_keys,
        modified |-> {new_dict[k] : k \in
                        {c \in common : \E f \in diff_fields :
                            Get(old_dict[c], f, "") # Get(new_dict[c], f, "")}}]

\* ComputeGenericDiff as it would be with the two lists compared position by
\* position (for old_item, new_item in zip(old_items, new_items))
ComputeGenericDiff_Positional(old_items, new_items, diff_fields) ==
    LET old_dict == DictOf(old_items)
        new_dict == DictOf(new_items)
        added_keys == DOMAIN new_dict \ DOMAIN old_dict
        removed_keys == DOMAIN old_dict \ DOMAIN new_dict
        both == DOMAIN old_items \cap DOMAIN new_items
    IN [added |-> {new_dict[k] : k \in added_keys},
        removed |-> removed_keys,
        modified |-> {new_items[i] : i \in
                        {j \in both :
                            /\ old_items[j].name = new_items[j].name
                            /\ \E f \in diff_fields :
                                  Get(old_items[j], f, "") # Get(new_items[j], f, "")}}]

\* RegistryDiff._compute_generic_diff: the three results as sets, the order in
\* which Python lists them being the iteration order of a set
ComputeGenericDiff(old_items, new_items, diff_fields) ==
    LET old_dict == DictOf(old_items)
        new_dict == DictOf(new_items)
        added_keys == DOMAIN new_dict \ DOMAIN old_dict
        removed_keys == DOMAIN old_dict \ DOMAIN new_dict
        common == DOMAIN old_dict \cap DOMAIN new_dict
    IN [added |-> {new_dict[k] : k \in added_keys},
        removed |-> removed_keys,
        modified |-> {new_dict[k] : k \in
                        {c \in common : \E f \in diff_fields :
                            Get(old_dict[c], f, "") # Get(new_dict[c], f, "")}}]

HatchDiffFields == {"version_constraint"}
PythonDiffFields == {"version_constraint", "package_manager"}

compute_dependency_diff(old_deps, new_deps) ==
    ComputeGenericDiff(old_deps, new_deps, HatchDiffFields)

\* compute_python_dependency_diff as it would be with the diff fields of the
\* hatch dependencies
compute_python_dependency_diff_ConstraintOnly(old_deps, new_deps) ==
    ComputeGenericDiff(old_deps, new_deps, HatchDiffFields)

compute_python_dependency_diff(old_deps, new_deps) ==
    ComputeGenericDiff(old_deps, new_deps, PythonDiffFields)

CompatKeys == {"hatchling", "python"}

\* compute_compatibility_diff as it would be with an absent key skipped
\* (if key in new_compat) instead of read as the empty string
compute_compatibility_diff_PresentOnly(old_compat, new_compat) ==
    LET changed == {k \in CompatKeys \cap DOMAIN new_compat :
                        Get(old_compat, k, "") # new_compat[k]}
    IN [k \in changed |-> new_compat[k]]

compute_compatibility_diff(old_compat, new_compat) ==
    LET changed == {k \in CompatKeys : Get(old_compat, k, "") # Get(new_compat, k, "")}
    IN [k \in changed |-> Get(new_compat, k, "")]

\* the record with version == base_version that the for loop stops at, or the
\* unchanged version_info when the loop finds none
NextInChain(package_versions, version_info) ==
    LET base_version == Get(version_info, "base_version", "")
        hits == {i \in DOMAIN package_versions : package_versions[i].version = base_version}
    IN IF hits = {} THEN version_info
       ELSE package_versions[CHOOSE i \in hits : \A j \in hits : i <= j]

\* the while loop of reconstruct_package_version.  The loop's only control
\* state is version_info, which ranges over the start record and the package's
\* records, so an iteration count above Len(package_versions) + 1 means a
\* record was visited twice and the loop never ends.
RECURSIVE WalkChain(_, _, _, _)
WalkChain(package_versions, version_info, version_chain, fuel) ==
    IF Get(version_info, "base_version", "") = ""
    THEN [diverges |-> FALSE, version_chain |-> version_chain, version_info |-> version_info]
    ELSE IF fuel = 0
    THEN [diverges |-> TRUE, version_chain |-> version_chain, version_info |-> version_info]
    ELSE WalkChain(package_versions,
                   NextInChain(package_versions, version_info),
                   Append(version_chain, version_info),
                   fuel - 1)

VersionChain(package_versions, version_info) ==
    WalkChain(package_versions, version_info, <<>>, Len(package_versions) + 1)

RECURSIVE RemoveAll(_, _)
RemoveAll(items, removed) ==
    IF removed = <<>> THEN items
    ELSE RemoveAll(WithoutName(items, Head(removed)), Tail(removed))

RECURSIVE ModifyAll(_, _)
ModifyAll(items, modified) ==
    IF modified = <<>> THEN items
    ELSE ModifyAll(ReplaceFirst(items, Head(modified)), Tail(modified))

\* one dependency list after the added, removed and modified entries of ver
ApplyListDelta(items, ver, prefix) ==
    LET added == Get(ver, prefix \o "_added", <<>>)
        removed == Get(ver, prefix \o "_removed", <<>>)
        modified == Get(ver, prefix \o "_modified", <<>>)
    IN ModifyAll(RemoveAll(items \o added, removed), modified)

ApplyCompat(compat, ver) ==
    LET changes == Get(ver, "compatibility_changes", EmptyDict)
    IN [k \in DOMAIN compat \cup DOMAIN changes |->
            IF k \in DOMAIN changes THEN changes[k] ELSE compat[k]]

ApplyVersion(acc, ver) ==
    [acc EXCEPT
        !.hatch_dependencies = ApplyListDelta(@, ver, "hatch_dependencies"),
        !.python_dependencies = ApplyListDelta(@, ver, "python_dependencies"),
        !.compatibility = ApplyCompat(@, ver)]

\* Replay as it would be if only the requested record's delta were applied
Replay_NewestOnly(acc, version_chain) ==
    IF version_chain = <<>> THEN acc ELSE ApplyVersion(acc, Head(version_chain))

\* for ver in reversed(version_chain): the chain is newest first
RECURSIVE Replay(_, _)
Replay(acc, version_chain) ==
    IF version_chain = <<>> THEN acc
    ELSE ApplyVersion(Replay(acc, Tail(version_chain)), Head(version_chain))

\* reconstruct_package_version as it would be with the accumulator kept on the
\* RegistryDiff object and not reset between calls
reconstruct_package_version_KeptAccumulator(package, version_info) ==
    LET walk == VersionChain(package.versions, version_info)
        fresh == [name |-> package.name,
                  version |-> walk.version_info.version,
                  hatch_dependencies |-> <<>>,
                  python_dependencies |-> <<>>,
                  compatibility |-> EmptyDict]
    IN Replay(IF last.op = "reconstruct_package_version" /\ last.result = "returned"
              THEN last.value ELSE fresh,
              walk.version_chain)

\* RegistryDiff.reconstruct_package_version for a call that returns
reconstruct_package_version(package, version_info) ==
    LET walk == VersionChain(package.versions, version_info)
    IN Replay([name |-> package.name,
               version |-> walk.version_info.version,
               hatch_dependencies |-> <<>>,
               python_dependencies |-> <<>>,
               compatibility |-> EmptyDict],
              walk.version_chain)

\* whether the call never returns
ReconstructDiverges(package, version_info) ==
    VersionChain(package.versions, version_info).diverges

(***************************************************************************)
(* RegistryCore: lookups                                                   *)
(***************************************************************************)
FirstIndex(seq, P(_)) ==
    LET hits == {i \in DOMAIN seq : P(seq[i])}
    IN IF hits = {} THEN 0 ELSE CHOOSE i \in hits : \A j \in hits : i <= j

RepoIndex(rd, repo_name) ==
    LET Is(r) == r.name = repo_name IN FirstIndex(rd.repositories, Is)

find_repository(rd, repo_name) ==
    IF RepoIndex(rd, repo_name) = 0 THEN None
    ELSE rd.repositories[RepoIndex(rd, repo_name)]

PkgIndex(repo, package_name) ==
    LET Is(p) == p.name = package_name IN FirstIndex(repo.packages, Is)

find_package(rd, repo_name, package_name) ==
    LET repo == find_repository(rd, repo_name)
    IN IF repo = None \/ PkgIndex(repo, package_name) = 0 THEN None
       ELSE repo.packages[PkgIndex(repo, package_name)]

VerIndex(pkg, version) ==
    LET Is(v) == v.version = version IN FirstIndex(pkg.versions, Is)

find_version(rd, repo_name, package_name, version) ==
    LET pkg == find_package(rd, repo_name, package_name)
    IN IF pkg = None \/ VerIndex(pkg, version) = 0 THEN None
       ELSE pkg.versions[VerIndex(pkg, version)]

\* registry_data with the package at (repo_name, package_name) replaced
WithPackage(rd, repo_name, package_name, pkg) ==
    LET ri == RepoIndex(rd, repo_name)
        pi == PkgIndex(rd.repositories[ri], package_name)
    IN [rd EXCEPT !.repositories[ri].packages[pi] = pkg]

BumpStats(rd, dp, dv) ==
    [rd EXCEPT !.stats.total_packages = @ + dp, !.stats.total_versions = @ + dv]

(***************************************************************************)
(* RegistryCore: the version writers                                       *)
(***************************************************************************)
\* RootRecord as it would be with the python list stored under both keys
RootRecord_PythonTwice(package_metadata, now) ==
    [version |-> package_metadata.version,
     added_date |-> now,
     hatch_dependencies_added |-> package_metadata.python_dependencies,
     python_dependencies_added |-> package_metadata.python_dependencies,
     compatibility_changes |-> package_metadata.compatibility]

\* the version record add_package creates (author and release_uri, which no
\* operation reads, are left out)
RootRecord(package_metadata, now) ==
    [version |-> package_metadata.version,
     added_date |-> now,
     hatch_dependencies_added |-> package_metadata.hatch_dependencies,
     python_dependencies_added |-> package_metadata.python_dependencies,
     compatibility_changes |-> package_metadata.compatibility]

NewPackage(package_metadata, now) ==
    [name |-> package_metadata.name,
     versions |-> <<RootRecord(package_metadata, now)>>,
     latest_version |-> package_metadata.version]

\* "if value: diff_data[key] = value" for a list or a dict
IfList(key, value) == IF value = <<>> THEN EmptyDict ELSE key :> value
IfDict(key, value) == IF DOMAIN value = {} THEN EmptyDict ELSE key :> value

\* the fields of one dependency list, for every order the sets may be listed in
ListDeltaFields(prefix, diff) ==
    {IfList(prefix \o "_added", a) @@ IfList(prefix \o "_removed", r)
        @@ IfList(prefix \o "_modified", m) :
        a \in Orderings(diff.added), r \in Orderings(diff.removed),
        m \in Orderings(diff.modified)}

\* PrepareDiffData as it would be with the package's first record as the base
PrepareDiffData_BaseIsRoot(pkg, package_metadata) ==
    LET latest_pkg_diff_info == pkg.versions[Len(pkg.versions)]
        latest_pkg_all_info == reconstruct_package_version(pkg, latest_pkg_diff_info)
        hatch == compute_dependency_diff(latest_pkg_all_info.hatch_dependencies,
                                         package_metadata.hatch_dependencies)
        python == compute_python_dependency_diff(latest_pkg_all_info.python_dependencies,
                                                 package_metadata.python_dependencies)
        compatibility_changes ==
            compute_compatibility_diff(latest_pkg_all_info.compatibility,
                                       package_metadata.compatibility)
    IN {("base_version" :> pkg.versions[1].version) @@ h @@ p
            @@ IfDict("compatibility_changes", compatibility_changes) :
        h \in ListDeltaFields("hatch_dependencies", hatch),
        p \in ListDeltaFields("python_dependencies", python)}

\* RegistryCore._prepare_registry_version_diff_data once pkg exists, has
\* versions and the reconstruction of its last record returns: the set of
\* diff_data dicts it may return
PrepareDiffData(pkg, package_metadata) ==
    LET latest_pkg_diff_info == pkg.versions[Len(pkg.versions)]
        latest_pkg_all_info == reconstruct_package_version(pkg, latest_pkg_diff_info)
        hatch == compute_dependency_diff(latest_pkg_all_info.hatch_dependencies,
                                         package_metadata.hatch_dependencies)
        python == compute_python_dependency_diff(latest_pkg_all_info.python_dependencies,
                                                 package_metadata.python_dependencies)
        compatibility_changes ==
            compute_compatibility_diff(latest_pkg_all_info.compatibility,
                                       package_metadata.compatibility)
    IN {("base_version" :> pkg.latest_version) @@ h @@ p
            @@ IfDict("compatibility_changes", compatibility_changes) :
        h \in ListDeltaFields("hatch_dependencies", hatch),
        p \in ListDeltaFields("python_dependencies", python)}

\* AddVersionOutcome as it would be without the find_version check
AddVersionOutcome_NoDuplicateCheck(rd, repo_name, package_name, version) ==
    LET pkg == find_package(rd, repo_name, package_name)
    IN IF find_repository(rd, repo_name) = None THEN "False"
       ELSE IF pkg = None THEN "TypeError"
       ELSE IF pkg.versions = <<>> THEN "IndexError"
       ELSE IF ReconstructDiverges(pkg, pkg.versions[Len(pkg.versions)]) THEN "diverges"
       ELSE "True"

\* how add_new_package_version ends on the given registry
AddVersionOutcome(rd, repo_name, package_name, version) ==
    LET pkg == find_package(rd, repo_name, package_name)
    IN IF find_repository(rd, repo_name) = None THEN "False"
       ELSE IF find_version(rd, repo_name, package_name, version) # None THEN "False"
       ELSE IF pkg = None THEN "TypeError"
       ELSE IF pkg.versions = <<>> THEN "IndexError"
       ELSE IF ReconstructDiverges(pkg, pkg.versions[Len(pkg.versions)]) THEN "diverges"
       ELSE "True"

\* AppendVersion as it would be without the assignment to latest_version
AppendVersion_KeepLatest(pkg, package_metadata, diff_data, now) ==
    [pkg EXCEPT
        !.versions = Append(@, diff_data @@ [version |-> package_metadata.version,
                                             added_date |-> now])]

\* version_data.update(diff_data); pkg["versions"].append(version_data);
\* pkg["latest_version"] = version
AppendVersion(pkg, package_metadata, diff_data, now) ==
    [pkg EXCEPT
        !.versions = Append(@, diff_data @@ [version |-> package_metadata.version,
                                             added_date |-> now]),
        !.latest_version = package_metadata.version]

(***************************************************************************)
(* RegistryCore: removal and patching                                      *)
(***************************************************************************)
RECURSIVE WithoutVersion(_, _)
WithoutVersion(versions, version) ==
    IF versions = <<>> THEN <<>>
    ELSE IF Head(versions).version = version THEN WithoutVersion(Tail(versions), version)
         ELSE <<Head(versions)>> \o WithoutVersion(Tail(versions), version)

\* LatestByDate as it would be if the last record were taken, whatever its date
LatestByDate_LastRecord(versions) == versions[Len(versions)]

\* max(versions, key=added_date): the first record with the greatest date
LatestByDate(versions) ==
    LET best == {i \in DOMAIN versions :
                    \A j \in DOMAIN versions : versions[j].added_date <= versions[i].added_date}
    IN versions[CHOOSE i \in best : \A j \in best : i <= j]

\* RemoveVersionFrom as it would be without the update of latest_version
RemoveVersionFrom_KeepLatest(pkg, version) ==
    [pkg EXCEPT !.versions = WithoutVersion(pkg.versions, version)]

\* the package after remove_version found and removed the version
RemoveVersionFrom(pkg, version) ==
    LET rest == WithoutVersion(pkg.versions, version)
    IN [pkg EXCEPT
          !.versions = rest,
          !.latest_version =
              IF pkg.latest_version = version
              THEN (IF rest # <<>> THEN LatestByDate(rest).version ELSE "")
              ELSE @]

\* RestrictedFields as it would be if update_version restricted nothing
RestrictedFields_None == {}

RestrictedFields == {"version"}

\* for field, value in updates.items(): if field not in restricted_fields: ...
PatchVersion(ver_data, updates) ==
    LET allowed == DOMAIN updates \ RestrictedFields
    IN [f \in DOMAIN ver_data \cup allowed |->
            IF f \in allowed THEN updates[f] ELSE ver_data[f]]

(***************************************************************************)
(* RegistryUpdater (hatch_registry/registry_updater.py)                    *)
(***************************************************************************)
\* how a call of the updater ended and the registry it left
Ended(result, stage, rd) == [result |-> result, stage |-> stage, registry_data |-> rd]

\* RegistryUpdater.update_package_registry for a package the registry holds:
\* after the validation it prepares the version data and calls
\* core.update_package_version, which RegistryCore does not define; the
\* AttributeError is caught and the call returns False
update_package_registry(rd, repo_name, package_metadata, pending_is_valid) ==
    IF find_version(rd, repo_name, package_metadata.name, package_metadata.version) # None
    THEN Ended("False", "version exists", rd)
    ELSE IF ~pending_is_valid THEN Ended("False", "pending validation failed", rd)
    ELSE Ended("False", "AttributeError", rd)

\* UpdaterAddPackage as it would be with the package written before the
\* validator is asked
UpdaterAddPackage_WriteThenValidate(rd, repo_name, package_metadata, is_valid, pending_is_valid, now) ==
    IF find_repository(rd, repo_name) = None THEN Ended("False", "repository not found", rd)
    ELSE IF find_package(rd, repo_name, package_metadata.name) # None
    THEN (IF ~is_valid THEN Ended("False", "validation failed", rd)
          ELSE update_package_registry(rd, repo_name, package_metadata, pending_is_valid))
    ELSE LET ri == RepoIndex(rd, repo_name)
             added == BumpStats([rd EXCEPT !.repositories[ri].packages =
                                    Append(@, NewPackage(package_metadata, now))], 1, 1)
         IN IF ~is_valid THEN Ended("False", "validation failed", added)
            ELSE Ended("True", "added", added)

\* RegistryUpdater.add_package, is_valid and pending_is_valid being the
\* validator's verdicts.  For a package the repository lacks it calls
\* core.add_package with a dict of name, description, category and tags only,
\* which raises AttributeError at package_metadata.get("author").get("name")
\* before anything is written; the updater catches it and returns False.
UpdaterAddPackage(rd, repo_name, package_metadata, is_valid, pending_is_valid, now) ==
    IF find_repository(rd, repo_name) = None THEN Ended("False", "repository not found", rd)
    ELSE IF ~is_valid THEN Ended("False", "validation failed", rd)
    ELSE IF find_package(rd, repo_name, package_metadata.name) # None
    THEN update_package_registry(rd, repo_name, package_metadata, pending_is_valid)
    ELSE Ended("False", "AttributeError", rd)

(***************************************************************************)
(* State machine                                                           *)
(***************************************************************************)
\* the patches offered to update_version
UpdateInputs ==
    {[base_version |-> VersionNames[1]], [version |-> "0.0.1"]}

\* a dependency name no snapshot carries
StrayName == "z"

\* patches that leave a record with a _modified entry naming a dependency the
\* replayed list does not hold, next to an entry that does match or alone
StrayInputs ==
    {[hatch_dependencies_modified |-> <<HDep(StrayName, ">=9.0"), HDep("a", ">=2.0")>>],
     [python_dependencies_modified |-> <<PDep(StrayName, ">=9.0", "pip")>>]}

\* the host threads that may call into one RegistryCore object, and a thread
\* that is in no call
Writers == {"w1", "w2"}
Idle == [pc |-> "idle"]

\* what a write that fails after the file was opened for writing leaves behind
Truncated == [truncated |-> TRUE]

\* the states of the file system under registry_path: every write succeeds,
\* open() raises, or json.dump() raises after open() emptied the file
DiskStates == {"ok", "denied", "full"}

\* RegistryCore._save_registry: the document and its last_updated stamp are
\* replaced; an exception is logged and swallowed
SaveRegistry(file, data, now) ==
    IF file.disk = "ok" THEN [file EXCEPT !.document = data, !.last_updated = now]
    ELSE IF file.disk = "full" THEN [file EXCEPT !.document = Truncated]
    ELSE file

EmptyRegistry ==
    [repositories |-> <<>>,
     stats |-> [total_packages |-> 0, total_versions |-> 0, total_artifacts |-> 0]]

\* the file _load_registry creates when there is none
NewFile == [document |-> EmptyRegistry, last_updated |-> 0, disk |-> "ok"]

Init ==
    /\ registry_data = EmptyRegistry
    /\ clock = 0
    /\ last = [op |-> "init", result |-> "True"]
    /\ written = [k \in RepoNames \X PkgNames |-> EmptyDict]
    /\ threads = [t \in Writers |-> Idle]
    /\ registry_file = NewFile

\* a call that never returned leaves the single-threaded program stuck
Running == last.result # "diverges"

\* a mutation that succeeds reads the clock (added_date, last_updated)
Tick == clock < MaxClock /\ clock' = clock + 1

\* Refuse as it would be if a refused call saved the registry all the same
Refuse_SavesAnyway(call) ==
    /\ last' = call @@ [result |-> "False"]
    /\ registry_file' = SaveRegistry(registry_file, registry_data, clock + 1)
    /\ UNCHANGED <<registry_data, clock, written, threads>>

Refuse(call) ==
    /\ last' = call @@ [result |-> "False"]
    /\ UNCHANGED <<registry_data, clock, written, threads, registry_file>>

\* RegistryCore.add_repository
AddRepository ==
    \E name \in RepoNames :
        LET call == [op |-> "add_repository", repo_name |-> name]
        IN /\ Running
           /\ IF find_repository(registry_data, name) # None
              THEN Refuse(call)
              ELSE /\ Tick
                   /\ registry_data' =
                        [registry_data EXCEPT
                            !.repositories = Append(@, [name |-> name, packages |-> <<>>])]
                   /\ last' = call @@ [result |-> "True"]
                   /\ registry_file' = SaveRegistry(registry_file, registry_data', clock')
                   /\ UNCHANGED <<written, threads>>

\* RegistryCore.remove_repository
RemoveRepository ==
    \E name \in RepoNames :
        LET call == [op |-> "remove_repository", repo_name |-> name]
            Keep(r) == r.name # name
        IN /\ Running
           /\ IF find_repository(registry_data, name) = None
              THEN Refuse(call)
              ELSE /\ Tick
                   /\ registry_data' =
                        [registry_data EXCEPT !.repositories = SelectSeq(@, Keep)]
                   /\ last' = call @@ [result |-> "True"]
                   /\ registry_file' = SaveRegistry(registry_file, registry_data', clock')
                   /\ UNCHANGED threads
                   /\ written' = [k \in DOMAIN written |->
                                     IF k[1] = name THEN EmptyDict ELSE written[k]]

\* RegistryCore.remove_package
RemovePackage ==
    \E repo_name \in RepoNames, package_name \in PkgNames :
        LET call == [op |-> "remove_package", repo_name |-> repo_name,
                     package_name |-> package_name]
            Keep(p) == p.name # package_name
            ri == RepoIndex(registry_data, repo_name)
        IN /\ Running
           /\ IF find_package(registry_data, repo_name, package_name) = None
              THEN Refuse(call)
              ELSE /\ Tick
                   /\ registry_data' =
                        [registry_data EXCEPT
                            !.repositories[ri].packages = SelectSeq(@, Keep)]
                   /\ last' = call @@ [result |-> "True"]
                   /\ registry_file' = SaveRegistry(registry_file, registry_data', clock')
                   /\ UNCHANGED threads
                   /\ written' = [written EXCEPT ![<<repo_name, package_name>>] = EmptyDict]

\* RegistryCore.add_package, the metadata drawn from the snapshots S
AddPackage(S) ==
    \E repo_name \in RepoNames, package_name \in PkgNames :
        LET call == [op |-> "add_package", repo_name |-> repo_name,
                     package_name |-> package_name]
            ri == RepoIndex(registry_data, repo_name)
        IN /\ Running
           /\ IF \/ find_repository(registry_data, repo_name) = None
                 \/ find_package(registry_data, repo_name, package_name) # None
              THEN Refuse(call)
              ELSE \E v \in VersionIds, s \in S :
                   /\ Tick
                   /\ registry_data' =
                        BumpStats([registry_data EXCEPT
                                      !.repositories[ri].packages =
                                          Append(@, NewPackage(Metadata(package_name, v, s),
                                                               clock'))],
                                  1, 1)
                   /\ last' = call @@ [version |-> v, result |-> "True"]
                   /\ registry_file' = SaveRegistry(registry_file, registry_data', clock')
                   /\ UNCHANGED threads
                   /\ written' = [written EXCEPT
                                     ![<<repo_name, package_name>>] = v :> s]

\* RegistryCore.add_new_package_version, the metadata drawn from the snapshots S
AddNewPackageVersion(S) ==
    \E repo_name \in RepoNames, package_name \in PkgNames, v \in VersionIds :
        LET call == [op |-> "add_new_package_version", repo_name |-> repo_name,
                     package_name |-> package_name, version |-> v]
            outcome == AddVersionOutcome(registry_data, repo_name, package_name, v)
            pkg == find_package(registry_data, repo_name, package_name)
        IN /\ Running
           /\ IF outcome # "True"
              THEN /\ last' = call @@ [result |-> outcome]
                   /\ UNCHANGED <<registry_data, clock, written, threads, registry_file>>
              ELSE \E s \in S :
                   /\ Tick
                   /\ \E diff_data \in PrepareDiffData(pkg, Metadata(package_name, v, s)) :
                        registry_data' =
                            BumpStats(WithPackage(registry_data, repo_name, package_name,
                                          AppendVersion(pkg, Metadata(package_name, v, s),
                                                        diff_data, clock')),
                                      0, 1)
                   /\ last' = call @@ [result |-> "True"]
                   /\ registry_file' = SaveRegistry(registry_file, registry_data', clock')
                   /\ UNCHANGED threads
                   /\ written' = [written EXCEPT
                                     ![<<repo_name, package_name>>] = (v :> s) @@ @]

\* RegistryCore.remove_version
RemoveVersion ==
    \E repo_name \in RepoNames, package_name \in PkgNames, version \in VersionIds :
        LET call == [op |-> "remove_version", repo_name |-> repo_name,
                     package_name |-> package_name, version |-> version]
            pkg == find_package(registry_data, repo_name, package_name)
        IN /\ Running
           /\ IF pkg = None \/ VerIndex(pkg, version) = 0
              THEN Refuse(call)
              ELSE /\ Tick
                   /\ registry_data' =
                        BumpStats(WithPackage(registry_data, repo_name, package_name,
                                              RemoveVersionFrom(pkg, version)),
                                  0, -1)
                   /\ last' = call @@ [result |-> "True"]
                   /\ registry_file' = SaveRegistry(registry_file, registry_data', clock')
                   /\ UNCHANGED threads
                   /\ written' = [written EXCEPT
                                     ![<<repo_name, package_name>>] =
                                         [w \in DOMAIN @ \ {version} |-> @[w]]]

\* RegistryCore.update_version, the patch drawn from U
UpdateVersionWith(U) ==
    \E repo_name \in RepoNames, package_name \in PkgNames, version \in VersionIds,
       updates \in U :
        LET call == [op |-> "update_version", repo_name |-> repo_name,
                     package_name |-> package_name, version |-> version,
                     updates |-> updates]
            pkg == find_package(registry_data, repo_name, package_name)
            vi == VerIndex(pkg, version)
        IN /\ Running
           /\ IF find_version(registry_data, repo_name, package_name, version) = None
                 \/ DOMAIN updates \subseteq RestrictedFields
              THEN Refuse(call)
              ELSE /\ Tick
                   /\ registry_data' =
                        WithPackage(registry_data, repo_name, package_name,
                                    [pkg EXCEPT !.versions[vi] = PatchVersion(@, updates)])
                   /\ last' = call @@ [result |-> "True"]
                   /\ registry_file' = SaveRegistry(registry_file, registry_data', clock')
                   /\ UNCHANGED <<written, threads>>

\* RegistryDiff.reconstruct_package_version on a stored record; with track,
\* again records that the previous call was the same one
ReconstructCall(track) ==
    \E repo_name \in RepoNames, package_name \in PkgNames, version \in VersionIds :
        LET package == find_package(registry_data, repo_name, package_name)
            version_info == find_version(registry_data, repo_name, package_name, version)
            call == [op |-> "reconstruct_package_version", repo_name |-> repo_name,
                     package_name |-> package_name, version |-> version,
                     again |-> /\ track
                               /\ last.op = "reconstruct_package_version"
                               /\ last.repo_name = repo_name
                               /\ last.package_name = package_name
                               /\ last.version = version]
        IN /\ Running
           /\ version_info # None
           /\ last' = IF ReconstructDiverges(package, version_info)
                      THEN call @@ [result |-> "diverges"]
                      ELSE call @@ [result |-> "returned",
                                    value |-> reconstruct_package_version(package, version_info)]
           /\ UNCHANGED <<registry_data, clock, written, threads, registry_file>>

Reconstruct == ReconstructCall(FALSE)

UpdateVersion == UpdateVersionWith(UpdateInputs)

\* RegistryUpdater.add_package on a package directory whose metadata is drawn
\* from the snapshots S
UpdaterAddPackageCall(S) ==
    \E repo_name \in RepoNames, package_name \in PkgNames, v \in VersionIds, s \in S,
       is_valid \in BOOLEAN, pending_is_valid \in BOOLEAN :
        LET end == UpdaterAddPackage(registry_data, repo_name, Metadata(package_name, v, s),
                                     is_valid, pending_is_valid, clock + 1)
        IN /\ Running
           /\ registry_data' = end.registry_data
           /\ clock' = IF end.registry_data = registry_data THEN clock ELSE clock + 1
           /\ clock' <= MaxClock
           /\ last' = [op |-> "updater.add_package", repo_name |-> repo_name,
                       package_name |-> package_name, version |-> v,
                       result |-> end.result, stage |-> end.stage]
           /\ registry_file' = IF end.registry_data = registry_data THEN registry_file
                               ELSE SaveRegistry(registry_file, registry_data', clock')
           /\ UNCHANGED <<written, threads>>

(***************************************************************************)
(* add_new_package_version called from several host threads on one         *)
(* RegistryCore object.  The method takes no lock, so a thread may be       *)
(* descheduled between any two of its statements; the steps below are the   *)
(* statements that read or write the package.                               *)
(***************************************************************************)
\* version_data after version_data.update(registry_version_diff_data)
VersionData(package_metadata, diff_data, now) ==
    diff_data @@ [version |-> package_metadata.version, added_date |-> now]

\* the checks, the clock read and _prepare_registry_version_diff_data: the diff
\* against the latest version as the thread finds it
WriterPrepare ==
    \E t \in Writers, repo_name \in RepoNames, package_name \in PkgNames, v \in VersionIds :
        LET call == [op |-> "add_new_package_version", repo_name |-> repo_name,
                     package_name |-> package_name, version |-> v]
            outcome == AddVersionOutcome(registry_data, repo_name, package_name, v)
            pkg == find_package(registry_data, repo_name, package_name)
        IN /\ Running
           /\ threads[t] = Idle
           /\ IF outcome # "True"
              THEN /\ last' = call @@ [result |-> outcome]
                   /\ UNCHANGED <<registry_data, clock, written, threads, registry_file>>
              ELSE \E s \in StoreSnapshots :
                   /\ Tick
                   /\ \E diff_data \in PrepareDiffData(pkg, Metadata(package_name, v, s)) :
                        threads' = [threads EXCEPT ![t] =
                            call @@ [pc |-> "append", snap |-> s,
                                     version_data |->
                                         VersionData(Metadata(package_name, v, s),
                                                     diff_data, clock')]]
                   /\ UNCHANGED <<registry_data, last, written, registry_file>>

\* pkg = self.find_package(...); pkg["versions"].append(version_data)
WriterAppend ==
    \E t \in Writers :
        /\ threads[t].pc = "append"
        /\ LET c == threads[t]
               pkg == find_package(registry_data, c.repo_name, c.package_name)
           IN IF pkg = None
              THEN /\ last' = [op |-> c.op, repo_name |-> c.repo_name,
                               package_name |-> c.package_name, version |-> c.version,
                               result |-> "TypeError"]
                   /\ threads' = [threads EXCEPT ![t] = Idle]
                   /\ UNCHANGED <<registry_data, clock, written, registry_file>>
              ELSE /\ registry_data' =
                        WithPackage(registry_data, c.repo_name, c.package_name,
                                    [pkg EXCEPT !.versions = Append(@, c.version_data)])
                   /\ written' = [written EXCEPT
                                     ![<<c.repo_name, c.package_name>>] =
                                         (c.version :> c.snap) @@ @]
                   /\ threads' = [threads EXCEPT ![t].pc = "latest"]
                   /\ UNCHANGED <<clock, last, registry_file>>

\* pkg["latest_version"] = package_metadata['version']
WriterSetLatest ==
    \E t \in Writers :
        /\ threads[t].pc = "latest"
        /\ LET c == threads[t]
               pkg == find_package(registry_data, c.repo_name, c.package_name)
           IN registry_data' =
                  WithPackage(registry_data, c.repo_name, c.package_name,
                              [pkg EXCEPT !.latest_version = c.version])
        /\ threads' = [threads EXCEPT ![t].pc = "stats"]
        /\ UNCHANGED <<clock, last, written, registry_file>>

\* stats["total_versions"] += 1; self._save_registry(); return True
WriterFinish ==
    \E t \in Writers :
        /\ threads[t].pc = "stats"
        /\ registry_data' = BumpStats(registry_data, 0, 1)
        /\ LET c == threads[t]
           IN last' = [op |-> c.op, repo_name |-> c.repo_name,
                       package_name |-> c.package_name, version |-> c.version,
                       result |-> "True"]
        /\ threads' = [threads EXCEPT ![t] = Idle]
        /\ registry_file' = SaveRegistry(registry_file, registry_data', clock)
        /\ UNCHANGED <<clock, written>>

\* RegistryCore.find_package called by a reader thread: the package as it is
\* at that moment
FindPackage ==
    \E repo_name \in RepoNames, package_name \in PkgNames :
        LET pkg == find_package(registry_data, repo_name, package_name)
            call == [op |-> "find_package", repo_name |-> repo_name,
                     package_name |-> package_name]
        IN /\ Running
           /\ last' = IF pkg = None THEN call @@ [result |-> "None"]
                      ELSE call @@ [result |-> "found", package |-> pkg]
           /\ UNCHANGED <<registry_data, clock, written, threads, registry_file>>

\* writers and a reader on one RegistryCore object, interleaved
NextConcurrent ==
    \/ AddRepository
    \/ AddPackage(StoreSnapshots)
    \/ WriterPrepare
    \/ WriterAppend
    \/ WriterSetLatest
    \/ WriterFinish
    \/ FindPackage

SpecConcurrent == Init /\ [][NextConcurrent]_vars

\* the version writers alone, on the full snapshot set
NextWriter ==
    \/ AddRepository
    \/ AddPackage(Snapshots)
    \/ AddNewPackageVersion(Snapshots)
    \/ Reconstruct

SpecWriter == Init /\ [][NextWriter]_vars

\* the version writers and remove_version
NextRemoval ==
    \/ AddRepository
    \/ AddPackage(StoreSnapshots)
    \/ AddNewPackageVersion(StoreSnapshots)
    \/ RemoveVersion
    \/ Reconstruct

SpecRemoval == Init /\ [][NextRemoval]_vars

\* every store operation
Next ==
    \/ AddRepository
    \/ RemoveRepository
    \/ AddPackage(StoreSnapshots)
    \/ RemovePackage
    \/ AddNewPackageVersion(StoreSnapshots)
    \/ RemoveVersion
    \/ UpdateVersion
    \/ Reconstruct

Spec == Init /\ [][Next]_vars

\* the version writers and reconstruction, repeated calls tracked
NextReplay ==
    \/ AddRepository
    \/ AddPackage(StoreSnapshots)
    \/ AddNewPackageVersion(StoreSnapshots)
    \/ RemoveVersion
    \/ ReconstructCall(TRUE)

SpecReplay == Init /\ [][NextReplay]_vars

\* the version writers on records whose _modified lists were patched
NextStray ==
    \/ AddRepository
    \/ AddPackage(StoreSnapshots)
    \/ AddNewPackageVersion(StoreSnapshots)
    \/ UpdateVersionWith(StrayInputs)
    \/ Reconstruct

SpecStray == Init /\ [][NextStray]_vars

(***************************************************************************)
(* The standalone RegistryUpdater (src/registry_updater.py), which writes   *)
(* the same registry document with its own diff and writer methods          *)
(***************************************************************************)
\* metadata snapshots offered to the standalone updater
LegacySnapshots ==
    { Snap(<<HDep("a", ">=1.0")>>, <<>>, EmptyDict),
      Snap(<<HDep("a", ">=1.0"), HDep("b", ">=1.0")>>, <<>>, EmptyDict) }

\* is_modified of the standalone _compute_generic_diff for one common key
LegacyIsModified(old_item, new_item, diff_fields) ==
    IF diff_fields # {}
    THEN \E f \in diff_fields :
            \/ /\ f \in DOMAIN old_item
               /\ f \in DOMAIN new_item
               /\ old_item[f] # new_item[f]
            \/ (f \in DOMAIN old_item) # (f \in DOMAIN new_item)
    ELSE old_item # new_item

\* RegistryUpdater._compute_generic_diff of the standalone module
LegacyComputeGenericDiff(old_items, new_items, diff_fields) ==
    LET old_dict == DictOf(old_items)
        new_dict == DictOf(new_items)
        common == DOMAIN old_dict \cap DOMAIN new_dict
    IN [added |-> {new_dict[k] : k \in DOMAIN new_dict \ DOMAIN old_dict},
        removed |-> DOMAIN old_dict \ DOMAIN new_dict,
        modified |-> {new_dict[k] : k \in
                        {c \in common :
                            LegacyIsModified(old_dict[c], new_dict[c], diff_fields)}}]

\* RegistryUpdater.compute_compatibility_diff of the standalone module
LegacyCompatibilityDiff(old_compat, new_compat) ==
    LET changed == {k \in CompatKeys : Get(old_compat, k, "") # Get(new_compat, k, "")}
    IN [k \in changed |-> Get(new_compat, k, "")]

\* the complete lists stored as additions: the first version, and the fall
\* back to non-differential storage
LegacyFullStorage(metadata) ==
    IfList("hatch_dependencies_added", metadata.hatch_dependencies)
        @@ IfList("python_dependencies_added", metadata.python_dependencies)
        @@ IfDict("compatibility_changes", metadata.compatibility)

\* RegistryUpdater._prepare_version_data of the standalone module for a package
\* that has versions (path, metadata_path and artifacts, which reconstruction
\* does not read, are left out); base_metadata is what the base version's
\* metadata file holds, None when it cannot be read
LegacyVersionData(pkg, metadata, is_first_version, base_metadata, now) ==
    LET version_data == [version |-> metadata.version, added_date |-> now]
        base_version == pkg.latest_version
        base_ref == IF base_version = "" THEN EmptyDict ELSE "base_version" :> base_version
        hatch == LegacyComputeGenericDiff(base_metadata.hatch_dependencies,
                                          metadata.hatch_dependencies, HatchDiffFields)
        python == LegacyComputeGenericDiff(base_metadata.python_dependencies,
                                           metadata.python_dependencies, PythonDiffFields)
    IN IF is_first_version THEN {version_data @@ LegacyFullStorage(metadata)}
       ELSE IF VerIndex(pkg, base_version) = 0 \/ base_metadata = None
       THEN {version_data @@ base_ref @@ LegacyFullStorage(metadata)}
       ELSE {version_data @@ base_ref @@ h @@ p
                @@ IfDict("compatibility_changes",
                          LegacyCompatibilityDiff(base_metadata.compatibility,
                                                  metadata.compatibility)) :
             h \in ListDeltaFields("hatch_dependencies", hatch),
             p \in ListDeltaFields("python_dependencies", python)}

\* the body of update_package_registry for a package the repository holds; the
\* base version's metadata file is the snapshot written as that version, or
\* cannot be read
LegacyAddVersion(call, repo_name, metadata, pending_is_valid, readable) ==
    LET pkg == find_package(registry_data, repo_name, metadata.name)
        stored == written[<<repo_name, metadata.name>>]
        base_metadata == IF readable /\ pkg.latest_version \in DOMAIN stored
                         THEN stored[pkg.latest_version] ELSE None
    IN IF \/ find_version(registry_data, repo_name, metadata.name, metadata.version) # None
          \/ ~pending_is_valid
          \/ pkg.versions = <<>>
       THEN Refuse(call)
       ELSE /\ Tick
            /\ \E version_data \in LegacyVersionData(pkg, metadata, FALSE,
                                                      base_metadata, clock') :
                  registry_data' =
                      BumpStats(WithPackage(registry_data, repo_name, metadata.name,
                                    [pkg EXCEPT !.versions = Append(@, version_data),
                                                !.latest_version = metadata.version]),
                                0, 1)
            /\ last' = call @@ [result |-> "True", fallback |-> base_metadata = None]
            /\ registry_file' = SaveRegistry(registry_file, registry_data', clock')
            /\ UNCHANGED threads
            /\ written' = [written EXCEPT
                              ![<<repo_name, metadata.name>>] =
                                  (metadata.version :> [hatch_dependencies |-> metadata.hatch_dependencies,
                                                        python_dependencies |-> metadata.python_dependencies,
                                                        compatibility |-> metadata.compatibility]) @@ @]

\* RegistryUpdater.update_package_registry of the standalone module
LegacyUpdatePackageRegistry(S) ==
    \E repo_name \in RepoNames, package_name \in PkgNames, v \in VersionIds, s \in S,
       pending_is_valid \in BOOLEAN, readable \in BOOLEAN :
        LET call == [op |-> "legacy.update_package_registry", repo_name |-> repo_name,
                     package_name |-> package_name, version |-> v]
        IN /\ Running
           /\ IF find_package(registry_data, repo_name, package_name) = None
              THEN Refuse(call)
              ELSE LegacyAddVersion(call, repo_name, Metadata(package_name, v, s),
                                    pending_is_valid, readable)

\* RegistryUpdater.add_package of the standalone module: a package that exists
\* gets a new version; a new one is created empty, given its first version and
\* taken out again when that fails
LegacyAddPackage(S) ==
    \E repo_name \in RepoNames, package_name \in PkgNames, v \in VersionIds, s \in S,
       is_valid \in BOOLEAN, pending_is_valid \in BOOLEAN, readable \in BOOLEAN :
        LET call == [op |-> "legacy.add_package", repo_name |-> repo_name,
                     package_name |-> package_name, version |-> v]
            metadata == Metadata(package_name, v, s)
            ri == RepoIndex(registry_data, repo_name)
            package == [name |-> package_name, versions |-> <<>>, latest_version |-> v]
        IN /\ Running
           /\ IF find_repository(registry_data, repo_name) = None \/ ~is_valid
              THEN Refuse(call)
              ELSE IF find_package(registry_data, repo_name, package_name) # None
              THEN LegacyAddVersion(call, repo_name, metadata, pending_is_valid, readable)
              ELSE IF ~pending_is_valid THEN Refuse(call)
              ELSE /\ Tick
                   /\ \E version_data \in LegacyVersionData(package, metadata, TRUE,
                                                             None, clock') :
                         registry_data' =
                             BumpStats([registry_data EXCEPT
                                           !.repositories[ri].packages =
                                               Append(@, [package EXCEPT
                                                             !.versions = <<version_data>>])],
                                       1, 1)
                   /\ last' = call @@ [result |-> "True", fallback |-> FALSE]
                   /\ registry_file' = SaveRegistry(registry_file, registry_data', clock')
                   /\ UNCHANGED threads
                   /\ written' = [written EXCEPT
                                     ![<<repo_name, package_name>>] = v :> s]

\* the standalone updater as the writer, RegistryDiff as the reader
NextLegacy ==
    \/ AddRepository
    \/ LegacyAddPackage(LegacySnapshots)
    \/ LegacyUpdatePackageRegistry(LegacySnapshots)
    \/ Reconstruct

SpecLegacy == Init /\ [][NextLegacy]_vars

\* a patch that gives a record an added_date later than any the clock hands out
DateInputs == {[added_date |-> MaxClock + 1]}

\* the snapshots an earlier session wrote as the first three versions of the
\* package, and the dates it wrote them at
LoadedSnapshots ==
    <<Snap(<<HDep("a", ">=1.0")>>, <<>>, [python |-> ">=3.8"]),
      Snap(<<>>, <<>>, EmptyDict),
      Snap(<<HDep("a", ">=1.0")>>, <<>>, [python |-> ">=3.8"])>>

\* the package after add_package and n - 1 calls of add_new_package_version
RECURSIVE LoadedPackage(_)
LoadedPackage(n) ==
    LET package_metadata == Metadata("base_pkg_1", VersionNames[n], LoadedSnapshots[n])
    IN IF n = 1 THEN NewPackage(package_metadata, 1 - Len(LoadedSnapshots))
       ELSE LET pkg == LoadedPackage(n - 1)
            IN AppendVersion(pkg, package_metadata,
                             CHOOSE diff_data \in PrepareDiffData(pkg, package_metadata) : TRUE,
                             n - Len(LoadedSnapshots))

\* the document that session left behind
LoadedRegistry ==
    [repositories |-> <<[name |-> "test-repo",
                         packages |-> <<LoadedPackage(Len(LoadedSnapshots))>>]>>,
     stats |-> [total_packages |-> 1, total_versions |-> Len(LoadedSnapshots),
                total_artifacts |-> 0]]

\* RegistryCore.__init__ on a registry file that exists: _load_registry reads it
InitLoaded ==
    /\ registry_data = LoadedRegistry
    /\ clock = 0
    /\ last = [op |-> "init", result |-> "True"]
    /\ written = [k \in RepoNames \X PkgNames |->
                    [i \in {VersionNames[n] : n \in DOMAIN LoadedSnapshots} |->
                        LoadedSnapshots[CHOOSE n \in DOMAIN LoadedSnapshots :
                                            VersionNames[n] = i]]]
    /\ threads = [t \in Writers |-> Idle]
    /\ registry_file = [document |-> LoadedRegistry, last_updated |-> 0, disk |-> "ok"]

\* the version writers, remove_version and update_version patching a date, on
\* a loaded registry
NextDated ==
    \/ AddNewPackageVersion(StoreSnapshots)
    \/ RemoveVersion
    \/ UpdateVersionWith(DateInputs)
    \/ Reconstruct

SpecDated == InitLoaded /\ [][NextDated]_vars

\* the file system under registry_path changes state between two calls
DiskChanges ==
    /\ Running
    /\ \E d \in DiskStates \ {registry_file.disk} :
          registry_file' = [registry_file EXCEPT !.disk = d]
    /\ UNCHANGED <<registry_data, clock, last, written, threads>>

\* the store operations on a file system that may fail
NextPersist ==
    \/ AddRepository
    \/ AddPackage(PersistSnapshots)
    \/ AddNewPackageVersion(PersistSnapshots)
    \/ RemoveVersion
    \/ DiskChanges

SpecPersist == Init /\ [][NextPersist]_vars

\* the updater in front of the version writers
NextUpdater ==
    \/ AddRepository
    \/ AddPackage(StoreSnapshots)
    \/ AddNewPackageVersion(StoreSnapshots)
    \/ RemovePackage
    \/ UpdaterAddPackageCall(StoreSnapshots)

SpecUpdater == Init /\ [][NextUpdater]_vars

\* the diff functions alone, on two given lists: the caller's two arguments
DiffInputs(kind, Items) ==
    {[op |-> "input", kind |-> kind, old_items |-> o, new_items |-> n, result |-> "True"] :
        o \in SeqsUpTo(Items, MaxItems), n \in SeqsUpTo(Items, MaxItems)}

\* the two arguments of a call of the compatibility diff
CompatInputs ==
    {[op |-> "input", kind |-> "compatibility", old_items |-> o, new_items |-> n,
      result |-> "True"] : o \in CompatMaps, n \in CompatMaps}

InitDiff ==
    /\ registry_data = EmptyRegistry
    /\ clock = 0
    /\ written = [k \in RepoNames \X PkgNames |-> EmptyDict]
    /\ threads = [t \in Writers |-> Idle]
    /\ registry_file = NewFile
    /\ \/ last \in DiffInputs("hatch_dependencies", HatchItems)
       \/ last \in DiffInputs("python_dependencies", PythonItems)
       \/ last \in CompatInputs

\* the three lists a diff function returns, in every order the sets may be
\* listed in
DiffCall(op, diff) ==
    /\ \E a \in Orderings(diff.added), r \in Orderings(diff.removed),
          m \in Orderings(diff.modified) :
            last' = [op |-> op, kind |-> last.kind, old_items |-> last.old_items,
                     new_items |-> last.new_items, added |-> a, removed |-> r,
                     modified |-> m, result |-> "returned"]
    /\ UNCHANGED <<registry_data, clock, written, threads, registry_file>>

\* RegistryDiff.compute_dependency_diff
ComputeDependencyDiff ==
    /\ last.op = "input"
    /\ last.kind = "hatch_dependencies"
    /\ DiffCall("compute_dependency_diff",
                compute_dependency_diff(last.old_items, last.new_items))

\* RegistryDiff.compute_python_dependency_diff
ComputePythonDependencyDiff ==
    /\ last.op = "input"
    /\ last.kind = "python_dependencies"
    /\ DiffCall("compute_python_dependency_diff",
                compute_python_dependency_diff(last.old_items, last.new_items))

\* RegistryDiff._compute_generic_diff called without diff_fields (None, which
\* the function turns into the empty list)
ComputeGenericDiffDefault ==
    /\ last.op = "input"
    /\ last.kind \in {"hatch_dependencies", "python_dependencies"}
    /\ DiffCall("_compute_generic_diff",
                ComputeGenericDiff(last.old_items, last.new_items, {}))

\* RegistryDiff.compute_compatibility_diff
ComputeCompatibilityDiff ==
    /\ last.op = "input"
    /\ last.kind = "compatibility"
    /\ last' = [op |-> "compute_compatibility_diff", kind |-> last.kind,
                old_items |-> last.old_items, new_items |-> last.new_items,
                changes |-> compute_compatibility_diff(last.old_items, last.new_items),
                result |-> "returned"]
    /\ UNCHANGED <<registry_data, clock, written, threads, registry_file>>

NextDiff ==
    \/ ComputeDependencyDiff
    \/ ComputePythonDependencyDiff
    \/ ComputeGenericDiffDefault
    \/ ComputeCompatibilityDiff

SpecDiff == InitDiff /\ [][NextDiff]_vars

(***************************************************************************)
(* Properties                                                              *)
(***************************************************************************)
Stored(repo_name, package_name) ==
    find_package(registry_data, repo_name, package_name) # None

\* the snapshot that was written as the given version of the package
WrittenAs(repo_name, package_name, version) ==
    written[<<repo_name, package_name>>][version]

SameSet(l1, l2) == Range(l1) = Range(l2)

\* equal maps, an absent key counting as the empty string
SameCompat(c1, c2) ==
    \A k \in CompatKeys \cup DOMAIN c1 \cup DOMAIN c2 : Get(c1, k, "") = Get(c2, k, "")

\* the last call reconstructed the record that is now the package's last one
ReconstructedLast ==
    /\ last.op = "reconstruct_package_version"
    /\ last.result = "returned"
    /\ LET pkg == find_package(registry_data, last.repo_name, last.package_name)
       IN pkg.versions[Len(pkg.versions)].version = last.version

\* C1: after snapshots M1..MN were written as successive versions of a package,
\* reconstruct_package_version on the N-th record returns the dependency sets
\* and the compatibility map of MN, for every N >= 1.
C1_RoundTrip ==
    ReconstructedLast =>
        LET m == WrittenAs(last.repo_name, last.package_name, last.version)
        IN /\ SameSet(last.value.hatch_dependencies, m.hatch_dependencies)
           /\ SameSet(last.value.python_dependencies, m.python_dependencies)
           /\ SameCompat(last.value.compatibility, m.compatibility)

\* the record the last reconstruct call was made on
LastRecord ==
    find_version(registry_data, last.repo_name, last.package_name, last.version)

\* base_version of the record names no record of its package
Dangling(pkg, ver) ==
    /\ Get(ver, "base_version", "") # ""
    /\ VerIndex(pkg, Get(ver, "base_version", "")) = 0

\* C2: reconstruct_package_version on a record whose base_version names no
\* record of the package fails with the chain-broken error (RegistryDiffError)
\* and returns no metadata.
C2_ChainBrokenError ==
    (/\ last.op = "reconstruct_package_version"
     /\ Dangling(find_package(registry_data, last.repo_name, last.package_name),
                 LastRecord))
        => last.result = "RegistryDiffError"

\* C3: from every stored record, the base_version pointers lead to a record
\* without base_version, visiting no record twice, in as many hops as the
\* record has predecessors in the package's version sequence.
C3_ChainMirrorsInsertionOrder ==
    \A repo_name \in RepoNames, package_name \in PkgNames :
        Stored(repo_name, package_name) =>
            LET pkg == find_package(registry_data, repo_name, package_name)
            IN \A i \in DOMAIN pkg.versions :
                LET walk == VersionChain(pkg.versions, pkg.versions[i])
                IN /\ ~walk.diverges
                   /\ Len(walk.version_chain) = i - 1

\* C4: reconstruct_package_version returns on every stored record of every
\* reachable package, and so does add_new_package_version, which calls it.
C4_ReconstructTerminates ==
    /\ last.result # "diverges"
    /\ \A repo_name \in RepoNames, package_name \in PkgNames :
        Stored(repo_name, package_name) =>
            LET pkg == find_package(registry_data, repo_name, package_name)
            IN \A i \in DOMAIN pkg.versions : ~ReconstructDiverges(pkg, pkg.versions[i])

ListKinds == {"hatch_dependencies", "python_dependencies"}

\* new is old with the version_constraint of exactly one entry of list kind
\* changed, and nothing else
OneConstraintChanged(old, new, kind) ==
    /\ \A f \in DOMAIN old \ {kind} : old[f] = new[f]
    /\ Len(old[kind]) = Len(new[kind])
    /\ \E i \in DOMAIN old[kind] :
        /\ old[kind][i].version_constraint # new[kind][i].version_constraint
        /\ new[kind] = [old[kind] EXCEPT
                           ![i].version_constraint = new[kind][i].version_constraint]

\* C5: when M(k+1) differs from M(k) in one dependency's version_constraint
\* only, the record written for M(k+1) has exactly one _modified entry and no
\* _added and no _removed field for that list, for every k >= 1.
C5_DeltaMinimality ==
    \A repo_name \in RepoNames, package_name \in PkgNames :
        Stored(repo_name, package_name) =>
            LET pkg == find_package(registry_data, repo_name, package_name)
            IN \A k \in DOMAIN pkg.versions, kind \in ListKinds :
                (/\ k + 1 \in DOMAIN pkg.versions
                 /\ OneConstraintChanged(
                        WrittenAs(repo_name, package_name, pkg.versions[k].version),
                        WrittenAs(repo_name, package_name, pkg.versions[k + 1].version),
                        kind))
                    => LET rec == pkg.versions[k + 1]
                       IN /\ Len(Get(rec, kind \o "_modified", <<>>)) = 1
                          /\ (kind \o "_added") \notin DOMAIN rec
                          /\ (kind \o "_removed") \notin DOMAIN rec

\* the last call was a successful add_package
AddedPackage == last.op = "add_package" /\ last.result = "True"

\* C6: the record add_package creates has no base_version, and its
\* hatch_dependencies_added and python_dependencies_added are the full lists
\* of the supplied metadata.
C6_RootRecord ==
    AddedPackage =>
        LET pkg == find_package(registry_data, last.repo_name, last.package_name)
            m == WrittenAs(last.repo_name, last.package_name, last.version)
            rec == pkg.versions[1]
        IN /\ "base_version" \notin DOMAIN rec
           /\ rec.hatch_dependencies_added = m.hatch_dependencies
           /\ rec.python_dependencies_added = m.python_dependencies

\* a root record with non-empty dependency lists has just been written
C6_Witness ==
    /\ AddedPackage
    /\ LET m == WrittenAs(last.repo_name, last.package_name, last.version)
       IN m.hatch_dependencies # <<>> \/ m.python_dependencies # <<>>

\* C7: a dependency of the latest version's metadata that the new metadata no
\* longer has is listed by name in the new record's _removed field, and the
\* reconstruction of the new record has no entry of that name.
C7_RemovalEncoding ==
    \A repo_name \in RepoNames, package_name \in PkgNames :
        Stored(repo_name, package_name) =>
            LET pkg == find_package(registry_data, repo_name, package_name)
            IN \A k \in DOMAIN pkg.versions, kind \in ListKinds :
                k + 1 \in DOMAIN pkg.versions =>
                    LET old == WrittenAs(repo_name, package_name, pkg.versions[k].version)
                        new == WrittenAs(repo_name, package_name, pkg.versions[k + 1].version)
                        rec == pkg.versions[k + 1]
                    IN \A d \in Names(old[kind]) \ Names(new[kind]) :
                        /\ d \in Range(Get(rec, kind \o "_removed", <<>>))
                        /\ d \notin Names(reconstruct_package_version(pkg, rec)[kind])

\* the package of the last call holds the scenario: a with constraint c1, then
\* a with constraint c2, then a with c2 and b
Scenario ==
    LET pkg == find_package(registry_data, last.repo_name, last.package_name)
        M(i) == WrittenAs(last.repo_name, last.package_name, pkg.versions[i].version)
    IN /\ Len(pkg.versions) >= 3
       /\ M(1).hatch_dependencies = <<HDep("a", ">=1.0")>>
       /\ M(2).hatch_dependencies = <<HDep("a", ">=1.1")>>
       /\ M(3).hatch_dependencies = <<HDep("a", ">=1.1"), HDep("b", ">=1.0")>>
       /\ pkg.versions[3].version = last.version

ReconstructedThird ==
    /\ last.op = "reconstruct_package_version"
    /\ last.result = "returned"
    /\ Scenario

\* C8: with a first version depending on a with constraint c1, a second that
\* changes the constraint to c2 and a third that adds b, the reconstruction of
\* the third version has exactly the hatch dependencies a with c2 and b.
C8_Scenario ==
    ReconstructedThird =>
        /\ Range(last.value.hatch_dependencies)
              = {HDep("a", ">=1.1"), HDep("b", ">=1.0")}
        /\ Len(last.value.hatch_dependencies) = 2

C8_Witness == ReconstructedThird

\* C9: each package's latest_version is empty or the version of one of its
\* records.
C9_LatestVersionExists ==
    \A repo_name \in RepoNames, package_name \in PkgNames :
        Stored(repo_name, package_name) =>
            LET pkg == find_package(registry_data, repo_name, package_name)
            IN \/ pkg.latest_version = ""
               \/ VerIndex(pkg, pkg.latest_version) # 0

\* remove_version has removed a record and the package still names a latest
\* version among the records it keeps
C9_Witness ==
    /\ last.op = "remove_version"
    /\ last.result = "True"
    /\ LET pkg == find_package(registry_data, last.repo_name, last.package_name)
       IN pkg.versions # <<>> /\ VerIndex(pkg, pkg.latest_version) # 0

\* C10: add_new_package_version with a version identifier the package already
\* has returns False and leaves the registry (versions, latest_version and
\* stats) as it was.
C10_DuplicateVersionRefused ==
    [][(/\ last'.op = "add_new_package_version"
        /\ find_version(registry_data, last'.repo_name, last'.package_name,
                        last'.version) # None)
          => (last'.result = "False" /\ registry_data' = registry_data)]_vars

\* a duplicate version has just been refused
C10_Witness ==
    /\ last.op = "add_new_package_version"
    /\ last.result = "False"
    /\ find_version(registry_data, last.repo_name, last.package_name, last.version) # None

\* the last call was add_new_package_version and it returned True
AddedVersion == last.op = "add_new_package_version" /\ last.result = "True"

\* C11: add_new_package_version for a package name the target repository does
\* not hold ends with the unknown-package error, not with success nor with
\* another fault, and leaves the registry as it was.
C11_UnknownPackageError ==
    [][(/\ last'.op = "add_new_package_version"
        /\ find_repository(registry_data, last'.repo_name) # None
        /\ find_package(registry_data, last'.repo_name, last'.package_name) = None)
          => (/\ last'.result = "UnknownPackageError"
              /\ registry_data' = registry_data)]_vars

\* C12: the record add_new_package_version appends to a package that has
\* versions carries, as base_version, the latest_version the package had just
\* before the write.
C12_BaseIsPreviousLatest ==
    [][(last'.op = "add_new_package_version" /\ last'.result = "True")
          => LET before == find_package(registry_data, last'.repo_name, last'.package_name)
                 after == find_package(registry_data', last'.repo_name, last'.package_name)
             IN /\ Len(after.versions) = Len(before.versions) + 1
                /\ after.versions[Len(after.versions)].version = last'.version
                /\ Get(after.versions[Len(after.versions)], "base_version", "")
                      = before.latest_version]_vars

\* a third record has just been appended, its base being the second
C12_Witness ==
    /\ AddedVersion
    /\ LET pkg == find_package(registry_data, last.repo_name, last.package_name)
       IN /\ Len(pkg.versions) >= 3
          /\ pkg.versions[Len(pkg.versions)].base_version
                = pkg.versions[Len(pkg.versions) - 1].version

\* the position of a version identifier in the order of release
Rank(v) == CHOOSE i \in DOMAIN VersionNames : VersionNames[i] = v

\* C13: after every successful add_new_package_version for version v the
\* package's latest_version is v, whether v is newer or older than the
\* versions recorded before.
C13_LatestIsNewVersion ==
    AddedVersion =>
        find_package(registry_data, last.repo_name, last.package_name).latest_version
            = last.version

\* a version older than one already recorded has just been added
C13_Witness ==
    /\ AddedVersion
    /\ LET pkg == find_package(registry_data, last.repo_name, last.package_name)
       IN \E i \in DOMAIN pkg.versions : Rank(pkg.versions[i].version) > Rank(last.version)

DeltaListFields ==
    {kind \o suffix : kind \in ListKinds, suffix \in {"_added", "_removed", "_modified"}}

\* C14: no stored version record, root or not, carries a delta field whose
\* value is an empty list or an empty map.
C14_NoEmptyDeltaField ==
    \A repo_name \in RepoNames, package_name \in PkgNames :
        Stored(repo_name, package_name) =>
            LET pkg == find_package(registry_data, repo_name, package_name)
            IN \A i \in DOMAIN pkg.versions :
                /\ \A f \in DeltaListFields \cap DOMAIN pkg.versions[i] :
                        pkg.versions[i][f] # <<>>
                /\ "compatibility_changes" \in DOMAIN pkg.versions[i]
                      => DOMAIN pkg.versions[i].compatibility_changes # {}

\* C15: in every stored version record and for each of the two dependency
\* lists, no dependency name is in more than one of the record's _added,
\* _removed and _modified fields.
C15_OneDeltaKindPerName ==
    \A repo_name \in RepoNames, package_name \in PkgNames :
        Stored(repo_name, package_name) =>
            LET pkg == find_package(registry_data, repo_name, package_name)
            IN \A i \in DOMAIN pkg.versions, kind \in ListKinds :
                LET added == Names(Get(pkg.versions[i], kind \o "_added", <<>>))
                    removed == Range(Get(pkg.versions[i], kind \o "_removed", <<>>))
                    modified == Names(Get(pkg.versions[i], kind \o "_modified", <<>>))
                IN /\ added \cap removed = {}
                   /\ added \cap modified = {}
                   /\ removed \cap modified = {}

\* a stored record has two kinds of delta for one dependency list
C15_Witness ==
    \E repo_name \in RepoNames, package_name \in PkgNames :
        /\ Stored(repo_name, package_name)
        /\ LET pkg == find_package(registry_data, repo_name, package_name)
           IN \E i \in DOMAIN pkg.versions, kind \in ListKinds :
                Cardinality({x \in {"_added", "_removed", "_modified"} :
                                (kind \o x) \in DOMAIN pkg.versions[i]}) >= 2

\* the updater's last call ended because the validator rejected the package
ValidatorRejected ==
    /\ last.op = "updater.add_package"
    /\ last.stage \in {"validation failed", "pending validation failed"}

\* C16: when the validator rejects a package the write is refused as a whole:
\* the call returns False and the registry holds the same repositories,
\* packages, version records and stats as before it.
C16_ValidatorRefusal ==
    [][(/\ last'.op = "updater.add_package"
        /\ last'.stage \in {"validation failed", "pending validation failed"})
          => (last'.result = "False" /\ registry_data' = registry_data)]_vars

\* the validator has rejected a new version of a package the registry holds
C16_Witness ==
    /\ ValidatorRejected
    /\ Stored(last.repo_name, last.package_name)

RECURSIVE TotalVersions(_)
TotalVersions(packages) ==
    IF packages = <<>> THEN 0
    ELSE Len(Head(packages).versions) + TotalVersions(Tail(packages))

RECURSIVE CountPackages(_)
CountPackages(repositories) ==
    IF repositories = <<>> THEN 0
    ELSE Len(Head(repositories).packages) + CountPackages(Tail(repositories))

RECURSIVE CountVersions(_)
CountVersions(repositories) ==
    IF repositories = <<>> THEN 0
    ELSE TotalVersions(Head(repositories).packages) + CountVersions(Tail(repositories))

\* C17: stats.total_packages is the number of packages in the registry and
\* stats.total_versions the number of version records over all packages.
C17_StatsMatchContent ==
    /\ registry_data.stats.total_packages = CountPackages(registry_data.repositories)
    /\ registry_data.stats.total_versions = CountVersions(registry_data.repositories)

DiffReturned ==
    last.op \in {"compute_dependency_diff", "compute_python_dependency_diff"}

\* no two items of the list have the same name
UniqueNames(items) == Cardinality(Names(items)) = Len(items)

UniqueInputs == UniqueNames(last.old_items) /\ UniqueNames(last.new_items)

\* the list has no element twice
NoRepeats(list) == Cardinality(Range(list)) = Len(list)

\* C19: for lists with unique names, the added component of the list diff is
\* exactly the records of the new list whose name the old list lacks, each
\* the full new record, once.
C19_AddedComponent ==
    (DiffReturned /\ UniqueInputs) =>
        /\ Range(last.added)
              = {x \in Range(last.new_items) : x.name \notin Names(last.old_items)}
        /\ NoRepeats(last.added)

\* a diff of lists that share a name has returned something added
C19_Witness ==
    /\ DiffReturned /\ UniqueInputs
    /\ last.added # <<>>
    /\ Names(last.old_items) \cap Names(last.new_items) # {}

\* C20: for lists with unique names, the removed component of the list diff is
\* exactly the names that are in the old list and not in the new one, as bare
\* names.
C20_RemovedComponent ==
    (DiffReturned /\ UniqueInputs) =>
        /\ Range(last.removed) = Names(last.old_items) \ Names(last.new_items)
        /\ NoRepeats(last.removed)

\* a diff of lists that share a name has returned something removed
C20_Witness ==
    /\ DiffReturned /\ UniqueInputs
    /\ last.removed # <<>>
    /\ Names(last.old_items) \cap Names(last.new_items) # {}

\* the fields whose change makes a dependency of the given list modified
Watched(kind) ==
    IF kind = "hatch_dependencies" THEN {"version_constraint"}
    ELSE {"version_constraint", "package_manager"}

\* the records of the new list whose name the old list has with another value
\* in one of the fields
ChangedIn(old_items, new_items, fields) ==
    {x \in Range(new_items) :
        \E y \in Range(old_items) : y.name = x.name /\ \E f \in fields : y[f] # x[f]}

\* C21: for lists with unique names, the modified component of the list diff
\* holds the new full record of a name of both lists exactly when a watched
\* field differs: version_constraint for hatch dependencies, version_constraint
\* or package_manager for Python dependencies.
C21_ModifiedComponent ==
    (DiffReturned /\ UniqueInputs) =>
        /\ Range(last.modified)
              = ChangedIn(last.old_items, last.new_items, Watched(last.kind))
        /\ NoRepeats(last.modified)

\* a Python dependency whose package_manager alone changed is reported modified
C21_Witness ==
    /\ DiffReturned /\ UniqueInputs
    /\ last.kind = "python_dependencies"
    /\ \E x \in Range(last.modified), y \in Range(last.old_items) :
          /\ y.name = x.name
          /\ y.version_constraint = x.version_constraint
          /\ y.package_manager # x.package_manager

\* C22: called with no watched fields, the list diff reports a record of both
\* lists as modified whenever any of its fields differs.
C22_EmptyFieldsCompareAll ==
    (last.op = "_compute_generic_diff" /\ UniqueInputs) =>
        \A x \in Range(last.new_items), y \in Range(last.old_items) :
            (x.name = y.name /\ x # y) => x \in Range(last.modified)

\* C23: compute_compatibility_diff returns a key exactly when it is hatchling
\* or python and its old and new values differ, an absent key counting as the
\* empty string; the value returned is the new one.
C23_CompatibilityDiff ==
    last.op = "compute_compatibility_diff" =>
        LET Old(k) == IF k \in DOMAIN last.old_items THEN last.old_items[k] ELSE ""
            New(k) == IF k \in DOMAIN last.new_items THEN last.new_items[k] ELSE ""
        IN /\ \A k \in {"hatchling", "python", "os"} :
                k \in DOMAIN last.changes
                    <=> (k \in {"hatchling", "python"} /\ Old(k) # New(k))
           /\ DOMAIN last.changes \subseteq {"hatchling", "python"}
           /\ \A k \in DOMAIN last.changes : last.changes[k] = New(k)

\* a key the new map lacks is returned with the empty string, and the unknown
\* key, although it changed, is not returned
C23_Witness ==
    /\ last.op = "compute_compatibility_diff"
    /\ \E k \in DOMAIN last.changes : k \notin DOMAIN last.new_items
    /\ "os" \in DOMAIN last.old_items /\ "os" \notin DOMAIN last.new_items

\* the list diff of the kind, as sets
DiffOf(kind, old_items, new_items) ==
    IF kind = "hatch_dependencies" THEN compute_dependency_diff(old_items, new_items)
    ELSE compute_python_dependency_diff(old_items, new_items)

\* C25: for lists with unique names, every permutation of the old list and
\* every permutation of the new list give the added, removed and modified
\* results a call has returned, compared as sets.
C25_OrderIndependent ==
    (DiffReturned /\ UniqueInputs) =>
        \A o \in Orderings(Range(last.old_items)), n \in Orderings(Range(last.new_items)) :
            LET d == DiffOf(last.kind, o, n)
            IN /\ d.added = Range(last.added)
               /\ d.removed = Range(last.removed)
               /\ d.modified = Range(last.modified)

\* a diff of two lists that hold the same two names in opposite order, one of
\* them modified
C25_Witness ==
    /\ DiffReturned /\ UniqueInputs
    /\ Len(last.old_items) = 2 /\ Len(last.new_items) = 2
    /\ last.old_items[1].name = last.new_items[2].name
    /\ last.old_items[2].name = last.new_items[1].name
    /\ last.modified # <<>>

\* C24: when a compatibility key is non-empty in the latest version's metadata
\* and absent or empty in the new metadata, the new record's
\* compatibility_changes maps the key to the empty string and the
\* reconstruction of the new record gives the empty string for it.
C24_RevertToEmpty ==
    \A repo_name \in RepoNames, package_name \in PkgNames :
        Stored(repo_name, package_name) =>
            LET pkg == find_package(registry_data, repo_name, package_name)
            IN \A k \in DOMAIN pkg.versions, key \in CompatKeys :
                k + 1 \in DOMAIN pkg.versions =>
                    LET old == WrittenAs(repo_name, package_name, pkg.versions[k].version)
                        new == WrittenAs(repo_name, package_name, pkg.versions[k + 1].version)
                        rec == pkg.versions[k + 1]
                        changes == Get(rec, "compatibility_changes", EmptyDict)
                    IN (Get(old.compatibility, key, "") # ""
                            /\ Get(new.compatibility, key, "") = "")
                        => /\ key \in DOMAIN changes
                           /\ changes[key] = ""
                           /\ Get(reconstruct_package_version(pkg, rec).compatibility,
                                  key, "") = ""

\* the fields of a version record that carry the chain and the deltas
ChainFields == {"base_version", "compatibility_changes"} \cup DeltaListFields

\* C29: no store operation changes the base_version or a delta field of a
\* version record that is already stored.
C29_RecordsImmutable ==
    [][\A repo_name \in RepoNames, package_name \in PkgNames :
        (/\ find_package(registry_data, repo_name, package_name) # None
         /\ find_package(registry_data', repo_name, package_name) # None)
          => LET before == find_package(registry_data, repo_name, package_name).versions
                 after == find_package(registry_data', repo_name, package_name).versions
             IN \A i \in DOMAIN before, j \in DOMAIN after :
                 before[i].version = after[j].version
                    => \A f \in ChainFields :
                         /\ f \in DOMAIN before[i] <=> f \in DOMAIN after[j]
                         /\ f \in DOMAIN before[i] => before[i][f] = after[j][f]]_vars

\* C30: add_new_package_version on a package that exists and has no version
\* record succeeds and stores a root record: the metadata's dependency lists
\* and compatibility map as _added and compatibility_changes, no base_version.
C30_FirstVersionOfEmptyPackage ==
    [][(/\ last'.op = "add_new_package_version"
        /\ find_package(registry_data, last'.repo_name, last'.package_name) # None
        /\ find_package(registry_data, last'.repo_name, last'.package_name).versions = <<>>)
          => /\ last'.result = "True"
             /\ LET after == find_package(registry_data', last'.repo_name,
                                          last'.package_name).versions
                    m == written'[<<last'.repo_name, last'.package_name>>][last'.version]
                IN /\ Len(after) = 1
                   /\ after[1].version = last'.version
                   /\ "base_version" \notin DOMAIN after[1]
                   /\ Get(after[1], "hatch_dependencies_added", <<>>) = m.hatch_dependencies
                   /\ Get(after[1], "python_dependencies_added", <<>>)
                         = m.python_dependencies
                   /\ SameCompat(Get(after[1], "compatibility_changes", EmptyDict),
                                 m.compatibility)]_vars

\* the record without the _modified entries that name the stray dependency
Unstrayed(ver) ==
    [f \in DOMAIN ver |->
        IF f \in {"hatch_dependencies_modified", "python_dependencies_modified"}
        THEN WithoutName(ver[f], StrayName) ELSE ver[f]]

\* the chain of records the last reconstruction replayed
ReplayedChain ==
    LET package == find_package(registry_data, last.repo_name, last.package_name)
        version_info == find_version(registry_data, last.repo_name, last.package_name,
                                     last.version)
    IN VersionChain(package.versions, version_info).version_chain

\* C26: during reconstruction a _modified entry whose name matches no entry of
\* the list replayed so far is skipped: the result is the one obtained from the
\* same records without that entry, so the accumulator is left as it was, the
\* name is not inserted, and every other delta of the chain is still applied.
C26_UnmatchedModifiedSkipped ==
    (last.op = "reconstruct_package_version" /\ last.result = "returned") =>
        LET package == find_package(registry_data, last.repo_name, last.package_name)
            version_info == find_version(registry_data, last.repo_name,
                                         last.package_name, last.version)
            clean == [package EXCEPT
                         !.versions = [i \in DOMAIN @ |-> Unstrayed(@[i])]]
        IN /\ last.value = reconstruct_package_version(clean, Unstrayed(version_info))
           /\ StrayName \notin Names(last.value.hatch_dependencies)
           /\ StrayName \notin Names(last.value.python_dependencies)

\* a replayed chain held an unmatched _modified entry next to a matching one,
\* and the matching one was applied
C26_Witness ==
    /\ last.op = "reconstruct_package_version"
    /\ last.result = "returned"
    /\ \E i \in DOMAIN ReplayedChain :
          /\ "hatch_dependencies_modified" \in DOMAIN ReplayedChain[i]
          /\ StrayName \in Names(ReplayedChain[i].hatch_dependencies_modified)
    /\ HDep("a", ">=2.0") \in Range(last.value.hatch_dependencies)
\* the stored records of a package that carry the given base_version
BasedOn(pkg, base_version) ==
    {i \in DOMAIN pkg.versions :
        /\ "base_version" \in DOMAIN pkg.versions[i]
        /\ pkg.versions[i].base_version = base_version}

\* C27: interleaved add_new_package_version calls on one package are
\* serialized: no two stored records carry the same base_version, and once
\* every call has returned latest_version names the record appended last.
C27_WritersSerialized ==
    \A repo_name \in RepoNames, package_name \in PkgNames :
        Stored(repo_name, package_name) =>
            LET pkg == find_package(registry_data, repo_name, package_name)
            IN /\ \A v \in VersionIds : Cardinality(BasedOn(pkg, v)) <= 1
               /\ (\A t \in Writers : threads[t] = Idle) =>
                      pkg.latest_version = pkg.versions[Len(pkg.versions)].version

\* C28: a reader that runs while add_new_package_version is in progress sees
\* the package before the write or after it: latest_version always names the
\* last record of the versions it was handed.
C28_ReaderSeesWholeWrite ==
    (last.op = "find_package" /\ last.result = "found") =>
        LET pkg == last.package
        IN pkg.latest_version = pkg.versions[Len(pkg.versions)].version

\* whether the record names no base (the key is absent or falsy)
Rootlike(ver) == Get(ver, "base_version", "") = ""

\* C31: every package with at least one version record has exactly one record
\* without base_version, the first of its versions; every other record has a
\* non-empty base_version that names a record of the same package.
C31_SingleRoot ==
    \A repo_name \in RepoNames, package_name \in PkgNames :
        Stored(repo_name, package_name) =>
            LET versions == find_package(registry_data, repo_name, package_name).versions
            IN versions # <<>> =>
                /\ Rootlike(versions[1])
                /\ \A i \in 2..Len(versions) :
                      /\ ~Rootlike(versions[i])
                      /\ \E j \in DOMAIN versions :
                            versions[j].version = versions[i].base_version

\* whether the step wrote the backing document
Wrote ==
    \/ registry_file'.document # registry_file.document
    \/ registry_file'.last_updated # registry_file.last_updated

\* C32: the backing document is written only after an operation's in-memory
\* mutation has succeeded: a step that ends a store operation with anything but
\* True leaves the document as it was, and a step that writes the document is
\* one that returned True and wrote the registry it had just mutated.
C32_NoWriteOnFailure ==
    [][/\ last'.result # "True" => ~Wrote
       /\ Wrote => /\ last'.result = "True"
                    /\ registry_file'.document \in {registry_data', Truncated}]_vars

\* a call was refused after the document had been written with a version in it
C32_Witness ==
    /\ last.op = "add_new_package_version"
    /\ last.result = "False"
    /\ registry_file.document = registry_data
    /\ registry_data.stats.total_versions >= 1

MutatingOps ==
    {"add_repository", "add_package", "add_new_package_version", "remove_version",
     "remove_package", "update_version"}

\* C39: after every mutating store operation that returned True the persisted
\* document equals the in-memory registry (so an operation whose save failed
\* has not returned True).
C39_SavedOnSuccess ==
    (last.op \in MutatingOps /\ last.result = "True") =>
        registry_file.document = registry_data

\* C33: no two version records of the same package have the same version
\* identifier, whatever add_package, add_new_package_version, remove_version
\* and update_version did before.
C33_UniqueVersionIds ==
    \A repo_name \in RepoNames, package_name \in PkgNames :
        Stored(repo_name, package_name) =>
            LET versions == find_package(registry_data, repo_name, package_name).versions
            IN \A i, j \in DOMAIN versions :
                  versions[i].version = versions[j].version => i = j

\* update_version was asked to rename a record of a package that holds
\* several, and refused
C33_Witness ==
    /\ last.op = "update_version"
    /\ "version" \in DOMAIN last.updates
    /\ last.result = "False"
    /\ Stored(last.repo_name, last.package_name)
    /\ LET pkg == find_package(registry_data, last.repo_name, last.package_name)
       IN /\ Len(pkg.versions) >= 2
          /\ VerIndex(pkg, last.version) # 0

\* C34: whenever add_new_package_version writes a record, the record whose
\* reconstruction the delta was computed against (the last element of versions
\* just before the write) is the record the new base_version names: its
\* version equals the latest_version of that moment.
C34_DiffAgainstBase ==
    [][(/\ last'.op = "add_new_package_version"
        /\ last'.result = "True")
          => LET before == find_package(registry_data, last'.repo_name, last'.package_name)
                 after == find_package(registry_data', last'.repo_name, last'.package_name)
             IN /\ before.versions[Len(before.versions)].version = before.latest_version
                /\ after.versions[Len(after.versions)].base_version
                      = before.versions[Len(before.versions)].version]_vars

\* the last call was reconstruct_package_version and it returned
Reconstructed == last.op = "reconstruct_package_version" /\ last.result = "returned"

\* the records from the requested one back to the root, the root included
WholeChain ==
    LET package == find_package(registry_data, last.repo_name, last.package_name)
        version_info == find_version(registry_data, last.repo_name, last.package_name,
                                     last.version)
        walk == VersionChain(package.versions, version_info)
    IN walk.version_chain \o <<walk.version_info>>

\* C35: reconstruction applies the deltas from the oldest record to the
\* requested one, each record of the chain from the root up to and including
\* the requested record exactly once, a newer record's change winning over an
\* older one's: the result is the replay of the whole chain, root first.
C35_OldestToNewest ==
    Reconstructed =>
        LET expected == Replay([name |-> last.package_name,
                                version |-> last.version,
                                hatch_dependencies |-> <<>>,
                                python_dependencies |-> <<>>,
                                compatibility |-> EmptyDict],
                               WholeChain)
        IN /\ last.value.hatch_dependencies = expected.hatch_dependencies
           /\ last.value.python_dependencies = expected.python_dependencies
           /\ last.value.compatibility = expected.compatibility

\* C37: the metadata reconstruct_package_version returns carries in its
\* version field the identifier of the record it was asked to reconstruct.
C37_VersionOfRequest ==
    Reconstructed => last.value.version = last.version

\* C36: remove_version of the version latest_version names sets latest_version
\* to the version of a remaining record with the greatest added_date, or to
\* the empty string when no record remains; remove_version of another existing
\* version leaves latest_version as it was; remove_version of a version the
\* package does not hold returns False and changes nothing.
C36_RemoveVersionLatest ==
    [][last'.op = "remove_version" =>
        LET before == find_package(registry_data, last'.repo_name, last'.package_name)
            after == find_package(registry_data', last'.repo_name, last'.package_name)
        IN IF before = None \/ VerIndex(before, last'.version) = 0
           THEN last'.result = "False" /\ registry_data' = registry_data
           ELSE /\ last'.result = "True"
                /\ after.versions = WithoutVersion(before.versions, last'.version)
                /\ IF before.latest_version # last'.version
                   THEN after.latest_version = before.latest_version
                   ELSE IF after.versions = <<>> THEN after.latest_version = ""
                   ELSE \E i \in DOMAIN after.versions :
                          /\ after.versions[i].version = after.latest_version
                          /\ \A j \in DOMAIN after.versions :
                                after.versions[j].added_date
                                    <= after.versions[i].added_date]_vars

\* remove_version has just made latest_version name a record that is not the
\* last one but carries the greatest date
C36_Witness ==
    /\ last.op = "remove_version"
    /\ last.result = "True"
    /\ LET pkg == find_package(registry_data, last.repo_name, last.package_name)
       IN /\ Len(pkg.versions) >= 2
          /\ pkg.versions[Len(pkg.versions)].version # pkg.latest_version
          /\ \A j \in DOMAIN pkg.versions :
                pkg.versions[j].added_date
                    <= find_version(registry_data, last.repo_name, last.package_name,
                                    pkg.latest_version).added_date

\* C38: no stored record that carries a base_version has an _added entry whose
\* name the reconstruction of its base already holds, so the reconstructed
\* dependency lists hold at most one entry per name; this for every record a
\* version writer wrote, the fall back to full storage included.
C38_AddedNamesAreNew ==
    \A repo_name \in RepoNames, package_name \in PkgNames :
        Stored(repo_name, package_name) =>
            LET pkg == find_package(registry_data, repo_name, package_name)
            IN \A i \in DOMAIN pkg.versions :
                LET ver == pkg.versions[i]
                    base == find_version(registry_data, repo_name, package_name,
                                         Get(ver, "base_version", ""))
                IN (~Rootlike(ver) /\ base # None /\ ~ReconstructDiverges(pkg, ver)) =>
                      \A prefix \in ListKinds :
                          /\ Names(Get(ver, prefix \o "_added", <<>>))
                                \cap Names(reconstruct_package_version(pkg, base)[prefix]) = {}
                          /\ UniqueNames(reconstruct_package_version(pkg, ver)[prefix])
====
